---- MODULE Spec2Model ----
(***************************************************************************)
(* State-machine model of the photo recognition pipeline of Ai-chop:       *)
(*   - bot.py: extract_text_from_response and handle_photo (variant        *)
(*     selection, the four provider attempts, the replies);                *)
(*   - telegram_gemini_affiliate_bot.py: call_gemini_with_image (limiter,  *)
(*     retry loop, backoff), extract_text_from_gemini_response, and the    *)
(*     language table with the handlers that read and write it;            *)
(*   - a caller that runs handle_photo or call_gemini_with_image twice     *)
(*     against a provider stub that repeats its answers;                   *)
(*   - the photo handlers of either program as tasks of one event loop.    *)
(* Python indices are 0-based; sequences here are 1-based, so photos[0] of *)
(* the source is photos[1] here and photos[-1] is photos[Len(photos)].     *)
(***************************************************************************)
EXTENDS Integers, Sequences, FiniteSets, TLC

\* ------------------------------------------------------------------ bounds
\* Largest number of resolution variants of one inbound photo.
MaxVariants == 3

\* Number of concurrent call_gemini_with_image invocations.
NumTasks == 4

\* Number of Telegram users.
NumUsers == 2
\* Number of photo messages whose handlers share one event loop.
NumHandlers == 2
\* Largest number of variants of a photo that is handled twice.
ReplayVariants == 1

\* ------------------------------------------------------- program constants
MAX_IMAGE_BYTES == 6 * 1024 * 1024
\* asyncio.Semaphore(3)
SemaphoreCapacity == 3
max_attempts == 3

\* Byte sizes a downloaded variant may have: far under, at, and just over the
\* budget.
SizeChoices == {1024, MAX_IMAGE_BYTES, MAX_IMAGE_BYTES + 1}

\* ------------------------------------------------------------------ state
\* What this run handles: one photo sent to bot.py ("photo"), concurrent
\* call_gemini_with_image invocations of the affiliate bot ("calls"), calls
\* of the two normalizers ("normalize"), or updates that read and write the
\* language table ("lang"), or photo handlers sharing an event loop
\* ("loop"). With run > 0 the photo or the one call is run twice.
VARIABLE workload

\* bot.py: handle_photo
VARIABLES
    photos,            \* update.message.photo: the byte size of each variant
    pc,                \* position of the handler
    idx,               \* loop variable of the selection loop
    file,              \* the File of the variant being looked at
    selected_file,     \* NoFile, or the File kept for the URL attempts
    image_bytes,       \* NoBytes while unbound, else the downloaded buffer
    tried_sizes,       \* (idx, size) per download; ok = FALSE stands for None
    telegram_file_url, \* TRUE once the URL was built (file_path was truthy)
    product_name,      \* last normalized text assigned
    attempts,          \* history: the plan entries attempted, in order
    first_text,        \* history: first non-empty normalized text, and where
    replies,           \* history: the replies issued after the progress
                       \* note, in order, and whether each reached the user
    only_empty,        \* history: every provider call so far returned a
                       \* response whose normalized text is empty
    last_attempt       \* history: what the provider attempt just made did

select_vars ==
    <<idx, file, selected_file, image_bytes, tried_sizes, telegram_file_url>>
attempt_vars == <<product_name, attempts, first_text, only_empty>>
hp_vars == <<photos, pc, select_vars, attempt_vars, replies, last_attempt>>

\* telegram_gemini_affiliate_bot.py: call_gemini_with_image
VARIABLES
    api_key,    \* GEMINI_API_KEY is set
    permits,    \* GEMINI_SEMAPHORE: free slots
    waiters,    \* GEMINI_SEMAPHORE: tasks suspended in acquire, oldest first
    cpc,        \* position of each invocation
    attempt,    \* loop variable of the retry loop
    backoff,    \* seconds to sleep before the next retry
    posts,      \* history: POSTs issued by each invocation in progress
    slept,      \* history: seconds it spent in backoff so far
    transient_only, \* history: every failure it met so far was a timeout or
                \* an HTTP 5xx status
    ev,         \* history: the response the last step handled, if it was one
    ret         \* history: the value the last step returned to the caller
                \* (Optional[str]), if it was a return

call_vars ==
    <<api_key, permits, waiters, cpc, attempt, backoff, posts, slept,
      transient_only, ev, ret>>

\* The response normalizers on their own
VARIABLE
    norm        \* the last normalizer call: which function, its argument and
                \* what it returned or that it raised

\* telegram_gemini_affiliate_bot.py: the users table and its handlers
VARIABLES
    db,         \* users.db: the rows of each user_id, none or one
    lang_ev,    \* history: the last handler run, for whom, the language it
                \* read and the language it stored (none or one of each)
    last_stored \* history: what lang_callback stored last for each user

lang_vars == <<db, lang_ev, last_stored>>

\* A caller that runs a program twice against a recording provider stub
VARIABLES
    run,        \* 0: no such caller; else the run in progress, 1 or 2
    prev,       \* the position at which the stub has seen the program last
    log,        \* the answers the environment gave during run 1, in order
    pos,        \* run 2: how many of them have been given again
    ended       \* the program state when run 1 was over

replay_vars == <<run, prev, log, pos, ended>>

\* Photo handlers of one program as tasks of one asyncio event loop
VARIABLES
    program,    \* whose handlers: "bot" (bot.py), "affiliate", or "none"
    hpos,       \* where each handler stands between its suspension points
    thread,     \* the handler the loop's thread is executing, 0 for none
    made        \* provider invocations each handler has made

loop_vars == <<program, hpos, thread, made>>

other_vars == <<norm, lang_vars, replay_vars, loop_vars>>

vars == <<workload, other_vars, hp_vars, call_vars>>

\* ------------------------------------------------------------ Python values
\* A Python value as far as the normalizer looks at it: None, a str (v holds
\* its characters), a list (items) or some other object.
PyNone == [t |-> "none", v |-> <<>>, items |-> <<>>]
PyObj == [t |-> "obj", v |-> <<>>, items |-> <<>>]
PyStr(s) == [t |-> "str", v |-> s, items |-> <<>>]
PyList(xs) == [t |-> "list", v |-> <<>>, items |-> xs]

\* bool(x)
Truthy(x) ==
    CASE x.t = "none" -> FALSE
      [] x.t = "str" -> x.v # <<>>
      [] x.t = "list" -> x.items # <<>>
      [] OTHER -> TRUE

\* a or b
PyOr(a, b) == IF Truthy(a) THEN a ELSE b

Whitespace == {" ", "\n"}

RECURSIVE lstrip(_)
lstrip(s) ==
    IF s # <<>> /\ Head(s) \in Whitespace THEN lstrip(Tail(s)) ELSE s

RECURSIVE rstrip(_)
rstrip(s) ==
    IF s # <<>> /\ s[Len(s)] \in Whitespace
    THEN rstrip(SubSeq(s, 1, Len(s) - 1))
    ELSE s

\* str.strip()
strip(s) == rstrip(lstrip(s))

\* The result of evaluating an expression: a value, or an exception raised.
Returned(s) == [raised |-> FALSE, value |-> s]
Raised == [raised |-> TRUE, value |-> <<>>]

\* x.strip() for a value of unknown type: only a str has the method.
StripOf(x) == IF x.t = "str" THEN Returned(strip(x.v)) ELSE Raised

\* "\n".join(pieces): raises unless every piece is a str.
RECURSIVE JoinNL(_)
JoinNL(pieces) ==
    IF pieces = <<>> THEN <<>>
    ELSE IF Len(pieces) = 1 THEN pieces[1].v
    ELSE pieces[1].v \o <<"\n">> \o JoinNL(Tail(pieces))

AllStr(pieces) == \A i \in 1..Len(pieces) : pieces[i].t = "str"

\* -------------------------------------------- bot.py: response normalizer
\* A provider response object: its attributes text, candidates and outputs
\* (PyNone when the attribute is missing) and what str(resp) gives.
NoneResp ==
    [isNone |-> TRUE, text |-> PyNone, candidates |-> PyNone,
     outputs |-> PyNone, str |-> <<>>]
Resp(text, candidates, outputs, str) ==
    [isNone |-> FALSE, text |-> text, candidates |-> candidates,
     outputs |-> outputs, str |-> str]

\* pieces collected by the loop over outputs (lines 60-63)
RECURSIVE OutputPieces(_)
OutputPieces(outs) ==
    IF outs = <<>> THEN <<>>
    ELSE LET p == PyOr(outs[1].text, outs[1].content)
         IN (IF Truthy(p) THEN <<p>> ELSE <<>>) \o OutputPieces(Tail(outs))

FromString(resp) == Returned(strip(resp.str))

FromOutputs(resp) ==
    LET outputs == resp.outputs
    IN IF Truthy(outputs) /\ outputs.t = "list"
       THEN LET pieces == OutputPieces(outputs.items)
            IN IF pieces # <<>>
               THEN (IF AllStr(pieces) THEN Returned(strip(JoinNL(pieces)))
                     ELSE Raised)
               ELSE FromString(resp)
       ELSE FromString(resp)

FromCandidates(resp) ==
    LET candidates == resp.candidates
    IN IF Truthy(candidates) /\ candidates.t = "list"
       THEN LET first == candidates.items[1]
                t == PyOr(first.content, first.text)
            IN IF Truthy(t) THEN StripOf(t) ELSE FromOutputs(resp)
       ELSE FromOutputs(resp)

extract_text_from_response(resp) ==
    IF resp.isNone THEN Returned(<<>>)
    ELSE IF Truthy(resp.text) THEN StripOf(resp.text)
    ELSE FromCandidates(resp)

\* Responses the provider stub hands to handle_photo.
TextA == <<"A">>
TextB == <<"B">>
Part(text, content) == [text |-> text, content |-> content]
ProviderResponses ==
    { NoneResp,
      Resp(PyStr(<<" ">> \o TextA), PyNone, PyNone, <<"r">>),
      Resp(PyNone, PyList(<<Part(PyNone, PyStr(TextB))>>), PyNone, <<"r">>),
      Resp(PyStr(<<" ">>), PyNone, PyNone, <<"r">>),
      Resp(PyObj, PyNone, PyNone, <<"r">>) }


\* ------------------------------------------------- bot.py: handle_photo
NoFile == [idx |-> 0, file_path |-> FALSE]
NoBytes == [idx |-> 0, size |-> 0]
NoText == [k |-> 0, v |-> <<>>]
NoAttempt == [target |-> 0, outcome |-> "none"]

\* What a reply_text call can do: "sent" delivers and returns; "lost" raises
\* with nothing delivered; "late" delivers but still raises (the
\* acknowledgement timed out).
ReplyOutcomes == {"sent", "lost", "late"}
ReplyRaised(o) == o # "sent"
Issue(kind, v, o) ==
    Append(replies, [kind |-> kind, v |-> v, reached |-> o # "lost"])

\* What one provider call can do: raise TypeError, raise something else, or
\* return a response.
ProviderOutcomes ==
    {[exc |-> e, resp |-> NoneResp] : e \in {"TypeError", "Exception"}}
    \cup {[exc |-> "none", resp |-> r] : r \in ProviderResponses}

\* lines 136, 148, 170, 185, for each of these responses
NormalizedResponse ==
    [resp \in ProviderResponses |-> extract_text_from_response(resp)]

HandlePhotoLocals ==
    /\ idx = 0
    /\ file = NoFile
    /\ selected_file = NoFile
    /\ image_bytes = NoBytes
    /\ tried_sizes = <<>>
    /\ telegram_file_url = FALSE
    /\ product_name = <<>>
    /\ attempts = <<>>
    /\ first_text = NoText
    /\ replies = <<>>
    /\ only_empty = TRUE
    /\ last_attempt = NoAttempt

HandlePhotoInit ==
    /\ photos \in UNION {[1..n -> SizeChoices] : n \in 0..MaxVariants}
    /\ pc = "start"
    /\ HandlePhotoLocals

\* No photo is sent to bot.py in this run.
HandlePhotoOff ==
    /\ photos = <<>>
    /\ pc = "off"
    /\ HandlePhotoLocals

\* A variant of exactly MAX_IMAGE_BYTES rejected.
Fits_Strict(size) == size < MAX_IMAGE_BYTES

\* lines 94-96: a downloaded variant is taken when it is within the budget.
Fits(size) == size <= MAX_IMAGE_BYTES

\* lines 156-165: the byte attempts need image_bytes; when it is unbound the
\* smallest variant is downloaded first.
BytePhasePc(bytes) == IF bytes = NoBytes THEN "get_file2" ELSE "a3"

\* A selected file without file_path treated as the end of the request.
AfterLoopPc_UrlRequired(sel, bytes) ==
    IF sel = NoFile THEN "r_local"
    ELSE IF sel.file_path THEN "a1"
    ELSE "r_exhausted"

\* lines 107-127: after the selection loop.
AfterLoopPc(sel, bytes) ==
    IF sel = NoFile THEN "r_local"
    ELSE IF sel.file_path THEN "a1"
    ELSE BytePhasePc(bytes)

\* Where control goes when attempt k ends without a reply (empty text).
NextAfter(k) ==
    CASE k = 1 -> "a2"
      [] k = 2 -> BytePhasePc(image_bytes)
      [] k = 3 -> "a4"
      [] OTHER -> "r_exhausted"

\* Where control goes when attempt k raises: each attempt has its own
\* except Exception (lines 141, 153, 175, 190), which only logs.
OnAttemptRaise(k) == NextAfter(k)

\* Where control goes when the success reply of attempt k raises: the reply
\* sits inside the attempt's try block, so the same except clause takes it.
OnReplyRaise(k) == NextAfter(k)

ReplyPc(k) ==
    CASE k = 1 -> "r1" [] k = 2 -> "r2" [] k = 3 -> "r3" [] OTHER -> "r4"

\* line 75: the progress reply, outside the try block; then lines 77-80.
Start ==
    /\ pc = "start"
    /\ \E o \in ReplyOutcomes :
         IF ReplyRaised(o) THEN pc' = "raised" /\ idx' = idx
         ELSE IF photos = <<>> THEN pc' = "r_nophoto" /\ idx' = idx
         ELSE pc' = "get_file" /\ idx' = Len(photos)
    /\ last_attempt' = NoAttempt
    /\ UNCHANGED <<workload, other_vars, call_vars>>
    /\ UNCHANGED <<photos, file, selected_file, image_bytes, tried_sizes,
                   telegram_file_url, attempt_vars, replies>>

\* line 87: photo.get_file(); a failure here goes to the outer except.
GetFile ==
    /\ pc = "get_file"
    /\ \/ \E fp \in BOOLEAN :
            /\ file' = [idx |-> idx, file_path |-> fp]
            /\ pc' = "download"
       \/ /\ file' = file
          /\ pc' = "r_error"
    /\ last_attempt' = NoAttempt
    /\ UNCHANGED <<workload, other_vars, call_vars>>
    /\ UNCHANGED <<photos, idx, selected_file, image_bytes, tried_sizes,
                   telegram_file_url, attempt_vars, replies>>

\* lines 89-118 for one variant: the download, the size check, and, when the
\* loop ends here, the selected_file check and the URL.
Download ==
    /\ pc = "download"
    /\ \E ok \in BOOLEAN :
         LET size == photos[idx]
             fits == ok /\ Fits(size)
             sel == IF fits \/ ~ok THEN file ELSE selected_file
             bytes == IF fits THEN [idx |-> idx, size |-> size]
                      ELSE image_bytes
             more == ~fits /\ idx > 1
         IN /\ tried_sizes' =
                 Append(tried_sizes,
                        [idx |-> idx, ok |-> ok,
                         size |-> IF ok THEN size ELSE 0])
            /\ selected_file' = sel
            /\ image_bytes' = bytes
            /\ idx' = IF more THEN idx - 1 ELSE idx
            /\ pc' = IF more THEN "get_file" ELSE AfterLoopPc(sel, bytes)
            /\ telegram_file_url' = (~more /\ sel # NoFile /\ sel.file_path)
    /\ last_attempt' = NoAttempt
    /\ UNCHANGED <<workload, other_vars, call_vars>>
    /\ UNCHANGED <<photos, file, attempt_vars, replies>>

\* One provider call of plan entry k and the normalization of its response
\* (lines 132-140, 147-152, 169-174, 182-189). keyword is TRUE for the
\* keyword call of generate_text, whose TypeError leads to the positional
\* call at positional_pc. The fixed plan is: (1) generate_text by URL, (2)
\* generate_content by URL, (3) generate_content with inline bytes, (4)
\* generate_text with inline bytes.
ProviderCall(k, at, keyword, positional_pc) ==
    /\ pc = at
    /\ attempts' = IF at \in {"a1pos", "a4pos"} THEN attempts
                   ELSE Append(attempts, k)
    /\ \E o \in ProviderOutcomes :
         LET n == NormalizedResponse[o.resp]
         IN IF o.exc = "TypeError" /\ keyword
            THEN /\ pc' = positional_pc
                 /\ last_attempt' = [target |-> k, outcome |-> "TypeError"]
                 /\ only_empty' = FALSE
                 /\ UNCHANGED <<product_name, first_text>>
            ELSE IF o.exc # "none" \/ n.raised
            THEN /\ pc' = OnAttemptRaise(k)
                 /\ last_attempt' = [target |-> k, outcome |-> "raise"]
                 /\ only_empty' = FALSE
                 /\ UNCHANGED <<product_name, first_text>>
            ELSE /\ product_name' = n.value
                 /\ pc' = IF n.value # <<>> THEN ReplyPc(k) ELSE NextAfter(k)
                 /\ last_attempt' =
                      [target |-> k,
                       outcome |-> IF n.value # <<>> THEN "text" ELSE "empty"]
                 /\ only_empty' = (only_empty /\ n.value = <<>>)
                 /\ first_text' =
                      IF n.value # <<>> /\ first_text = NoText
                      THEN [k |-> k, v |-> n.value]
                      ELSE first_text
    /\ UNCHANGED <<photos, select_vars, replies>>
    /\ UNCHANGED <<workload, other_vars, call_vars>>

UrlGenerateText == ProviderCall(1, "a1", TRUE, "a1pos")
UrlGenerateTextPositional == ProviderCall(1, "a1pos", FALSE, "a1pos")
UrlGenerateContent == ProviderCall(2, "a2", FALSE, "a2")
BytesGenerateContent == ProviderCall(3, "a3", FALSE, "a3")
BytesGenerateText == ProviderCall(4, "a4", TRUE, "a4pos")
BytesGenerateTextPositional == ProviderCall(4, "a4pos", FALSE, "a4pos")

\* lines 138-139, 150-151, 172-173, 187-188: the success reply of attempt k.
ReplyProduct(k) ==
    /\ pc = ReplyPc(k)
    /\ \E o \in ReplyOutcomes :
         /\ replies' = Issue("product", product_name, o)
         /\ pc' = IF ReplyRaised(o) THEN OnReplyRaise(k) ELSE "done"
    /\ last_attempt' = NoAttempt
    /\ UNCHANGED <<workload, other_vars, call_vars>>
    /\ UNCHANGED <<photos, select_vars, attempt_vars>>

\* line 163: photos[0].get_file(); a failure goes to the except of line 193.
GetSmallestFile ==
    /\ pc = "get_file2"
    /\ \E ok \in BOOLEAN : pc' = IF ok THEN "download2" ELSE "r_exhausted"
    /\ last_attempt' = NoAttempt
    /\ UNCHANGED <<workload, other_vars, call_vars>>
    /\ UNCHANGED <<photos, select_vars, attempt_vars, replies>>

\* line 164: the smallest variant is downloaded with no size check.
DownloadSmallest ==
    /\ pc = "download2"
    /\ \E ok \in BOOLEAN :
         IF ok THEN /\ image_bytes' = [idx |-> 1, size |-> photos[1]]
                    /\ pc' = "a3"
         ELSE /\ image_bytes' = image_bytes
              /\ pc' = "r_exhausted"
    /\ last_attempt' = NoAttempt
    /\ UNCHANGED <<workload, other_vars, call_vars>>
    /\ UNCHANGED <<photos, idx, file, selected_file, tried_sizes,
                   telegram_file_url, attempt_vars, replies>>

\* A terminal reply at position at; when it raises control goes to raise_pc.
TerminalReply(at, kind, raise_pc) ==
    /\ pc = at
    /\ \E o \in ReplyOutcomes :
         /\ replies' = Issue(kind, <<>>, o)
         /\ pc' = IF ReplyRaised(o) THEN raise_pc ELSE "done"
    /\ last_attempt' = NoAttempt
    /\ UNCHANGED <<workload, other_vars, call_vars>>
    /\ UNCHANGED <<photos, select_vars, attempt_vars>>

\* line 197: every attempt failed.
ReplyExhausted == TerminalReply("r_exhausted", "exhausted", "r_error")
\* line 79
ReplyNoPhoto == TerminalReply("r_nophoto", "nophoto", "r_error")
\* line 109
ReplyLocalError == TerminalReply("r_local", "local", "r_error")
\* line 203: the outer except; if this reply raises too, handle_photo raises.
ReplyError == TerminalReply("r_error", "error", "raised")

HandlePhotoDone == pc \in {"done", "raised"}

\* ------------------ telegram_gemini_affiliate_bot.py: response normalizer
\* A decoded JSON value: null, a number, a str (s), a list (l) or a dict (d,
\* its items as <<key, value>> pairs in insertion order).
JNull == [t |-> "null", s |-> <<>>, l |-> <<>>, d |-> <<>>]
JNum == [t |-> "num", s |-> <<>>, l |-> <<>>, d |-> <<>>]
JStr(s) == [t |-> "str", s |-> s, l |-> <<>>, d |-> <<>>]
JList(xs) == [t |-> "list", s |-> <<>>, l |-> xs, d |-> <<>>]
JDict(items) == [t |-> "dict", s |-> <<>>, l |-> <<>>, d |-> items]

\* bool(x)
JTruthy(x) ==
    CASE x.t = "null" -> FALSE
      [] x.t = "str" -> x.s # <<>>
      [] x.t = "list" -> x.l # <<>>
      [] x.t = "dict" -> x.d # <<>>
      [] OTHER -> TRUE

\* key in x, for a dict x
Has(x, key) == \E i \in 1..Len(x.d) : x.d[i][1] = key

\* x.get(key), for a dict x
Get(x, key) ==
    IF Has(x, key)
    THEN x.d[CHOOSE i \in 1..Len(x.d) : x.d[i][1] = key][2]
    ELSE JNull

JOr(a, b) == IF JTruthy(a) THEN a ELSE b

\* x.strip() for a JSON value: a str gives Optional[str], anything else
\* raises.
JStripOf(x) == IF x.t = "str" THEN Returned(PyStr(strip(x.s))) ELSE Raised

NotFound == [found |-> FALSE, res |-> Raised]
Found(r) == [found |-> TRUE, res |-> r]

\* lines 183-187: the loop over the parts of the first candidate's content.
RECURSIVE ContentParts(_)
ContentParts(cont) ==
    IF cont = <<>> THEN NotFound
    ELSE LET part == cont[1]
         IN IF part.t = "dict" /\ Has(part, "text")
            THEN Found(JStripOf(Get(part, "text")))
            ELSE IF part.t = "str" THEN Found(JStripOf(part))
            ELSE ContentParts(Tail(cont))

\* lines 178-189: the first candidate.
FirstCandidate(data) ==
    LET cands == JOr(Get(data, "candidates"),
                     JOr(Get(data, "outputs"), Get(data, "outputs_candidates")))
    IN IF JTruthy(cands) /\ cands.t = "list" /\ cands.l[1].t = "dict"
       THEN LET first == cands.l[1]
                cont == Get(first, "content")
                inParts == IF JTruthy(cont) /\ cont.t = "list"
                           THEN ContentParts(cont.l)
                           ELSE NotFound
            IN IF inParts.found THEN inParts
               ELSE IF Has(first, "text") /\ Get(first, "text").t = "str"
               THEN Found(JStripOf(Get(first, "text")))
               ELSE NotFound
       ELSE NotFound

\* lines 190-193
OutputText(data) ==
    IF Has(data, "output") /\ Get(data, "output").t = "dict"
       /\ Has(Get(data, "output"), "text")
    THEN Found(JStripOf(Get(Get(data, "output"), "text")))
    ELSE NotFound

\* lines 194-196
RECURSIVE TopLevelText(_, _)
TopLevelText(data, keys) ==
    IF keys = <<>> THEN NotFound
    ELSE IF Has(data, keys[1]) /\ Get(data, keys[1]).t = "str"
    THEN Found(JStripOf(Get(data, keys[1])))
    ELSE TopLevelText(data, Tail(keys))

\* lines 198-211: the first truthy result of the depth-first search; a str
\* is returned as it is, a dict or a list is searched in order.
RECURSIVE find_first_str(_), FindInValues(_)
find_first_str(obj) ==
    CASE obj.t = "str" -> obj
      [] obj.t = "dict" ->
           FindInValues([i \in 1..Len(obj.d) |-> obj.d[i][2]])
      [] obj.t = "list" -> FindInValues(obj.l)
      [] OTHER -> JNull
FindInValues(vs) ==
    IF vs = <<>> THEN JNull
    ELSE LET res == find_first_str(vs[1])
         IN IF JTruthy(res) THEN res ELSE FindInValues(Tail(vs))

\* lines 212-213
DeepSearch(data) ==
    LET found == find_first_str(data)
    IN IF found.t = "str" THEN PyStr(strip(found.s)) ELSE PyNone

\* extract_text_from_gemini_response: Optional[str]; whatever is raised
\* inside is caught (line 214) and None returned.
extract_text_from_gemini_response(data) ==
    IF data.t # "dict" THEN PyNone
    ELSE LET a == FirstCandidate(data)
             b == OutputText(data)
             c == TopLevelText(data, <<"response", "result", "text">>)
             r == IF a.found THEN a.res
                  ELSE IF b.found THEN b.res
                  ELSE IF c.found THEN c.res
                  ELSE Returned(DeepSearch(data))
         IN IF r.raised THEN PyNone ELSE r.value

\* The shape the Gemini REST API answers with.
GeminiAnswer(text) ==
    JDict(<<
      <<"candidates",
        JList(<<JDict(<<
          <<"content",
            JDict(<< <<"parts", JList(<<JDict(<< <<"text", JStr(text)>> >>)>>)>>,
                     <<"role", JStr(<<"m">>)>> >>)>>,
          <<"finishReason", JStr(<<"S">>)>> >>)>>)>> >>)

\* Bodies resp.json() hands to call_gemini_with_image.
GeminiBodies ==
    { GeminiAnswer(TextA \o <<"\n">>),
      JDict(<< <<"candidates",
                 JList(<<JDict(<< <<"content", JList(<<JStr(TextA)>>)>> >>)>>)>> >>),
      JDict(<< <<"text", JStr(<<" ">>)>> >>),
      JDict(<< <<"candidates",
                 JList(<<JDict(<< <<"content",
                                    JList(<<JDict(<< <<"text", JNum>> >>)>>)>> >>)>>)>> >>),
      JDict(<<>>) }

\* line 156, for each of these bodies
NormalizedBody ==
    [body \in GeminiBodies |-> extract_text_from_gemini_response(body)]

\* --------- telegram_gemini_affiliate_bot.py: call_gemini_with_image
Tasks == 1..NumTasks
Users == 1..NumUsers

\* A response handled: by which invocation, what it was (a timeout, another
\* exception, a status other than 200, or 200 with a body), the status seen
\* (0: none), the normalized text of a 200 body, and the invocation's
\* attempt, POSTs, seconds slept and earlier failures when it arrived.
NoEvent ==
    [task |-> 0, kind |-> "none", status |-> 0, text |-> PyNone,
     attempt |-> 0, posts |-> 0, slept |-> 0, transient_only |-> TRUE]
Event(t, kind, status, text) ==
    [task |-> t, kind |-> kind, status |-> status, text |-> text,
     attempt |-> attempt[t], posts |-> posts[t], slept |-> slept[t],
     transient_only |-> transient_only[t]]

NoReturn == [task |-> 0, value |-> PyNone]

\* HTTP statuses the endpoint answers with.
Statuses == {200, 404, 500, 599}

CallsInit ==
    /\ permits = SemaphoreCapacity
    /\ waiters = <<>>
    /\ cpc = [t \in Tasks |-> "idle"]
    /\ attempt = [t \in Tasks |-> 0]
    /\ backoff = [t \in Tasks |-> 0]
    /\ posts = [t \in Tasks |-> 0]
    /\ slept = [t \in Tasks |-> 0]
    /\ transient_only = [t \in Tasks |-> TRUE]
    /\ ev = NoEvent
    /\ ret = NoReturn

\* line 143: session.post for the current attempt.
Post(t, n) ==
    /\ cpc' = [cpc EXCEPT ![t] = "post"]
    /\ attempt' = [attempt EXCEPT ![t] = n]
    /\ posts' = [posts EXCEPT ![t] = @ + 1]

\* A slot handed out once more than the semaphore holds.
SlotFree_OneMore == permits >= 0

\* line 139: the semaphore hands out a slot only while its value is positive.
SlotFree == permits > 0

\* lines 116-143: the key check, the payload, and the limiter. acquire()
\* returns at once when a slot is free and nobody waits; else the task
\* suspends behind the earlier waiters. Invocations are numbered in the
\* order in which they are made.
Invoke(t) ==
    /\ workload = "calls"
    /\ cpc[t] = "idle"
    /\ \A u \in 1..(t - 1) : cpc[u] # "idle"
    /\ IF ~api_key
       THEN /\ cpc' = [cpc EXCEPT ![t] = "returned"]
            /\ ret' = [task |-> t, value |-> PyNone]
            /\ UNCHANGED <<permits, waiters, attempt, backoff, posts>>
       ELSE /\ backoff' = [backoff EXCEPT ![t] = 1]
            /\ IF SlotFree /\ waiters = <<>>
               THEN /\ permits' = permits - 1
                    /\ Post(t, 1)
                    /\ UNCHANGED waiters
               ELSE /\ waiters' = Append(waiters, t)
                    /\ cpc' = [cpc EXCEPT ![t] = "acquire"]
                    /\ UNCHANGED <<permits, attempt, posts>>
            /\ ret' = NoReturn
    /\ ev' = NoEvent
    /\ UNCHANGED <<api_key, slept, transient_only>>
    /\ UNCHANGED <<workload, other_vars, hp_vars>>

\* line 139: a released slot wakes the oldest waiter, which then posts.
Grant(t) ==
    /\ cpc[t] = "acquire"
    /\ waiters # <<>> /\ Head(waiters) = t
    /\ SlotFree
    /\ permits' = permits - 1
    /\ waiters' = Tail(waiters)
    /\ Post(t, 1)
    /\ ev' = NoEvent
    /\ ret' = NoReturn
    /\ UNCHANGED <<api_key, backoff, slept, transient_only>>
    /\ UNCHANGED <<workload, other_vars, hp_vars>>

\* A return that keeps the slot.
Return_KeepsSlot(t, value) ==
    /\ cpc' = [cpc EXCEPT ![t] = "returned"]
    /\ ret' = [task |-> t, value |-> value]
    /\ attempt' = [attempt EXCEPT ![t] = 0]
    /\ backoff' = [backoff EXCEPT ![t] = 0]
    /\ posts' = [posts EXCEPT ![t] = 0]
    /\ slept' = [slept EXCEPT ![t] = 0]
    /\ transient_only' = [transient_only EXCEPT ![t] = TRUE]
    /\ UNCHANGED permits

\* Leaving "async with GEMINI_SEMAPHORE" by a return statement: the slot is
\* released and the value handed to the caller; the locals of the call (and
\* the history kept with them) are gone.
Return(t, value) ==
    /\ cpc' = [cpc EXCEPT ![t] = "returned"]
    /\ ret' = [task |-> t, value |-> value]
    /\ permits' = permits + 1
    /\ attempt' = [attempt EXCEPT ![t] = 0]
    /\ backoff' = [backoff EXCEPT ![t] = 0]
    /\ posts' = [posts EXCEPT ![t] = 0]
    /\ slept' = [slept EXCEPT ![t] = 0]
    /\ transient_only' = [transient_only EXCEPT ![t] = TRUE]

\* The slot given back for the time of the sleep.
Sleep_ReleasesSlot(t, transient) ==
    /\ cpc' = [cpc EXCEPT ![t] = "sleep"]
    /\ slept' = [slept EXCEPT ![t] = @ + backoff[t]]
    /\ transient_only' = [transient_only EXCEPT ![t] = @ /\ transient]
    /\ ret' = NoReturn
    /\ permits' = permits + 1
    /\ UNCHANGED <<attempt, backoff, posts>>

\* lines 151, 161, 168: await asyncio.sleep(backoff), the slot still held.
\* transient is whether the failure slept on was a timeout or a 5xx status.
Sleep(t, transient) ==
    /\ cpc' = [cpc EXCEPT ![t] = "sleep"]
    /\ slept' = [slept EXCEPT ![t] = @ + backoff[t]]
    /\ transient_only' = [transient_only EXCEPT ![t] = @ /\ transient]
    /\ ret' = NoReturn
    /\ UNCHANGED <<permits, attempt, backoff, posts>>

\* Every error status retried.
RetryOnStatus_AnyError(status, n) == n < max_attempts

\* line 150
RetryOnStatus(status, n) == 500 <= status /\ status < 600 /\ n < max_attempts
\* One attempt fewer.
RetryOnTimeout_OneFewer(n) == n < max_attempts - 1

\* line 160
RetryOnTimeout(n) == n < max_attempts
\* line 167
RetryOnException(n) == n < max_attempts

\* The last failure re-raised to the caller instead of returning None.
AfterFailure_Propagates(t, retry, transient) ==
    IF retry THEN Sleep(t, transient)
    ELSE /\ cpc' = [cpc EXCEPT ![t] = "raised"]
         /\ ret' = NoReturn
         /\ permits' = permits + 1
         /\ UNCHANGED <<attempt, backoff, posts, slept, transient_only>>

\* lines 150-154, 160-164, 167-171: sleep and go round again, or give up.
AfterFailure(t, retry, transient) ==
    IF retry THEN Sleep(t, transient) ELSE Return(t, PyNone)

\* An empty answer retried like a failure.
AfterOk_RetryEmpty(t, text) ==
    IF ~Truthy(text) /\ attempt[t] < max_attempts
    THEN Sleep(t, TRUE)
    ELSE Return(t, text)

\* lines 155-157: a 200 response is normalized and returned as it is.
AfterOk(t, text) == Return(t, text)

\* lines 158-164: asyncio.TimeoutError from the POST or from reading the
\* response.
RespondTimeout(t) ==
    /\ cpc[t] = "post"
    /\ ev' = Event(t, "timeout", 0, PyNone)
    /\ AfterFailure(t, RetryOnTimeout(attempt[t]), TRUE)
    /\ UNCHANGED <<api_key, waiters>>
    /\ UNCHANGED <<workload, other_vars, hp_vars>>

\* lines 165-171: any other exception: from the POST (status 0), from
\* resp.text() after an error status, or from resp.json() after a 200.
RespondException(t) ==
    /\ cpc[t] = "post"
    /\ \E st \in {0, 200, 404} : ev' = Event(t, "exception", st, PyNone)
    /\ AfterFailure(t, RetryOnException(attempt[t]), FALSE)
    /\ UNCHANGED <<api_key, waiters>>
    /\ UNCHANGED <<workload, other_vars, hp_vars>>

\* lines 146-154: a status other than 200 whose body was read.
RespondErrorStatus(t) ==
    /\ cpc[t] = "post"
    /\ \E st \in Statuses \ {200} :
         /\ ev' = Event(t, "status", st, PyNone)
         /\ AfterFailure(t, RetryOnStatus(st, attempt[t]),
                         500 <= st /\ st < 600)
    /\ UNCHANGED <<api_key, waiters>>
    /\ UNCHANGED <<workload, other_vars, hp_vars>>

\* lines 155-157: status 200 with a body that decodes.
RespondOk(t) ==
    /\ cpc[t] = "post"
    /\ \E body \in GeminiBodies :
         LET text == NormalizedBody[body]
         IN /\ ev' = Event(t, "ok", 200, text)
            /\ AfterOk(t, text)
    /\ UNCHANGED <<api_key, waiters>>
    /\ UNCHANGED <<workload, other_vars, hp_vars>>

\* The delay kept at its first value.
WakeUp_NoDoubling(t) ==
    /\ cpc[t] = "sleep"
    /\ Post(t, attempt[t] + 1)
    /\ ev' = NoEvent
    /\ ret' = NoReturn
    /\ UNCHANGED <<api_key, permits, waiters, backoff, slept, transient_only>>
    /\ UNCHANGED <<workload, other_vars, hp_vars>>

\* lines 152-153, 162-163, 169-170 and 140-143: the sleep is over; backoff
\* doubles and the next attempt posts.
WakeUp(t) ==
    /\ cpc[t] = "sleep"
    /\ backoff' = [backoff EXCEPT ![t] = @ * 2]
    /\ Post(t, attempt[t] + 1)
    /\ ev' = NoEvent
    /\ ret' = NoReturn
    /\ UNCHANGED <<api_key, permits, waiters, slept, transient_only>>
    /\ UNCHANGED <<workload, other_vars, hp_vars>>

CallsNext ==
    \E t \in Tasks :
        \/ Invoke(t)
        \/ Grant(t)
        \/ RespondTimeout(t)
        \/ RespondException(t)
        \/ RespondErrorStatus(t)
        \/ RespondOk(t)
        \/ WakeUp(t)

\* POSTs in flight
InFlight == {t \in Tasks : cpc[t] = "post"}
\* invocations inside "async with GEMINI_SEMAPHORE"
Holders == {t \in Tasks : cpc[t] \in {"post", "sleep"}}

\* ----------------- telegram_gemini_affiliate_bot.py: the language table
\* The result of "SELECT lang ... WHERE user_id = ?" is no row or, user_id
\* being the primary key, one row.
NoRow == <<>>
Row(lang) == <<lang>>

LangAr == <<"a", "r">>
LangEn == <<"e", "n">>
LangPrefix == <<"l", "a", "n", "g", ":">>

\* callback_data of the two buttons of start and lang_command; the
\* CallbackQueryHandler pattern "^lang:" lets nothing else through.
CallbackData == {LangPrefix \o LangAr, LangPrefix \o LangEn}

NoLangEvent == [op |-> "none", user |-> 0, read |-> NoRow, stored |-> NoRow]
LangEvent(op, u, read, stored) ==
    [op |-> op, user |-> u, read |-> read, stored |-> stored]

\* lines 63-75: CREATE TABLE IF NOT EXISTS on a database that does not exist
\* yet.
LangOff ==
    /\ db = [u \in Users |-> NoRow]
    /\ lang_ev = NoLangEvent
    /\ last_stored = [u \in Users |-> NoRow]

\* REPLACE without regard to the key: every row rewritten.
set_user_lang_EveryRow(user_id, lang) == [u \in Users |-> Row(lang)]

\* lines 78-83: REPLACE INTO users (user_id, lang); the table afterwards.
set_user_lang(user_id, lang) == [db EXCEPT ![user_id] = Row(lang)]

\* lines 86-92: row[0] if row else "en"
get_user_lang(user_id) ==
    LET row == db[user_id]
    IN IF row # NoRow THEN row[1] ELSE LangEn

\* str.startswith
startswith(s, prefix) ==
    /\ Len(s) >= Len(prefix)
    /\ SubSeq(s, 1, Len(prefix)) = prefix

\* data.split(":", 1)[1] of a string that holds a colon
AfterFirstColon(s) ==
    LET i == CHOOSE k \in 1..Len(s) :
                 s[k] = ":" /\ \A j \in 1..(k - 1) : s[j] # ":"
    IN SubSeq(s, i + 1, Len(s))

\* A handler that reads the language and replies in it; the table is not
\* written.
ReadsLang(op, u) ==
    /\ lang_ev' = LangEvent(op, u, Row(get_user_lang(u)), NoRow)
    /\ UNCHANGED <<db, last_stored>>

\* A handler run that ends before it reads the language.
ReadsNothing(op, u) ==
    /\ lang_ev' = LangEvent(op, u, NoRow, NoRow)
    /\ UNCHANGED <<db, last_stored>>

LangFrame ==
    UNCHANGED <<workload, norm, replay_vars, loop_vars, hp_vars, call_vars>>

\* lines 375-376: the bot is started again; init_db finds the table.
init_db ==
    /\ workload = "lang"
    /\ ReadsNothing("init_db", 0)
    /\ LangFrame

\* lines 220-233
start(u) ==
    /\ workload = "lang"
    /\ ReadsLang("start", u)
    /\ LangFrame

\* lines 236-247: query.answer() may raise, which ends the handler; else the
\* language after "lang:" is stored, unless the database write raises.
lang_callback(u) ==
    /\ workload = "lang"
    /\ \E answered \in BOOLEAN, written \in BOOLEAN, data \in CallbackData :
         IF answered /\ startswith(data, LangPrefix) /\ written
         THEN LET chosen == AfterFirstColon(data)
              IN /\ db' = set_user_lang(u, chosen)
                 /\ last_stored' = [last_stored EXCEPT ![u] = Row(chosen)]
                 /\ lang_ev' = LangEvent("lang_callback", u, NoRow,
                                         Row(chosen))
         ELSE ReadsNothing("lang_callback", u)
    /\ LangFrame

\* lines 250-271: nothing is done for a blank text; make_amazon_link runs
\* before the language is read.
text_handler(u) ==
    /\ workload = "lang"
    /\ \E t \in {PyNone, PyStr(<<" ">>), PyStr(TextA)}, linked \in BOOLEAN :
         LET text == strip(IF Truthy(t) THEN t.v ELSE <<>>)
         IN IF text # <<>> /\ linked
            THEN ReadsLang("text_handler", u)
            ELSE ReadsNothing("text_handler", u)
    /\ LangFrame

\* lines 274-330, as far as the users table goes: the language is read once
\* (line 282) when the message has photos; the rest of the handler, the
\* provider call included, replies in that language and never writes the
\* table.
photo_handler(u) ==
    /\ workload = "lang"
    /\ \E has_photos \in BOOLEAN :
         IF has_photos
         THEN ReadsLang("photo_handler", u)
         ELSE ReadsNothing("photo_handler", u)
    /\ LangFrame

\* lines 333-338
help_handler(u) ==
    /\ workload = "lang"
    /\ ReadsLang("help_handler", u)
    /\ LangFrame

\* lines 341-349
lang_command(u) ==
    /\ workload = "lang"
    /\ ReadsNothing("lang_command", u)
    /\ LangFrame

LangNext ==
    \/ init_db
    \/ \E u \in Users :
        \/ start(u)
        \/ lang_callback(u)
        \/ text_handler(u)
        \/ photo_handler(u)
        \/ help_handler(u)
        \/ lang_command(u)

\* ------------------------------------- photo handlers on one event loop
\* A handler is "idle" (its update not yet dispatched), "running" (the
\* loop's thread executes it), "telegram" (suspended in an awaited Telegram
\* call), "provider" (its provider invocation is outstanding), "ready" (what
\* it awaited has completed; it waits for the thread) or "done".
Handlers == 1..NumHandlers

LoopOff ==
    /\ program = "none"
    /\ hpos = [t \in Handlers |-> "idle"]
    /\ thread = 0
    /\ made = [t \in Handlers |-> 0]

\* bot.py lines 133, 135, 147, 168, 182, 184: model.generate_text and
\* model.generate_content are plain calls, which return when the provider
\* has answered; telegram_gemini_affiliate_bot.py lines 143-157: session.post
\* and the reading of the response are awaited.
YieldsAtProvider(p) == p = "affiliate"

\* The provider invocations one handler can make: the six calls of
\* handle_photo, or the POSTs of one call_gemini_with_image.
ProviderCallsOf(p) == IF p = "bot" THEN 6 ELSE max_attempts

LoopFrame == UNCHANGED <<workload, norm, lang_vars, replay_vars, hp_vars,
                         call_vars>>

\* The handler is started and runs to its first await: the progress reply
\* (bot.py line 75), get_file or the "no photo" reply (affiliate lines 277,
\* 284).
Begin(t) ==
    /\ workload = "loop"
    /\ thread = 0
    /\ hpos[t] = "idle"
    /\ hpos' = [hpos EXCEPT ![t] = "telegram"]
    /\ UNCHANGED <<program, thread, made>>
    /\ LoopFrame

\* await reply_text / get_file / download_as_bytearray: the handler is
\* suspended and the thread goes back to the loop.
AwaitTelegram(t) ==
    /\ thread = t
    /\ hpos[t] = "running"
    /\ hpos' = [hpos EXCEPT ![t] = "telegram"]
    /\ thread' = 0
    /\ UNCHANGED <<program, made>>
    /\ LoopFrame

\* Telegram has answered; the handler can go on when the thread is free.
TelegramDone(t) ==
    /\ hpos[t] = "telegram"
    /\ hpos' = [hpos EXCEPT ![t] = "ready"]
    /\ UNCHANGED <<program, thread, made>>
    /\ LoopFrame

\* The loop gives the thread to a handler whose await has completed.
Resume(t) ==
    /\ thread = 0
    /\ hpos[t] = "ready"
    /\ hpos' = [hpos EXCEPT ![t] = "running"]
    /\ thread' = t
    /\ UNCHANGED <<program, made>>
    /\ LoopFrame

\* The handler invokes the provider. An awaited invocation gives the thread
\* back; a plain call keeps it until the call returns.
CallProvider(t) ==
    /\ thread = t
    /\ hpos[t] = "running"
    /\ made[t] < ProviderCallsOf(program)
    /\ hpos' = [hpos EXCEPT ![t] = "provider"]
    /\ made' = [made EXCEPT ![t] = @ + 1]
    /\ thread' = IF YieldsAtProvider(program) THEN 0 ELSE t
    /\ UNCHANGED program
    /\ LoopFrame

\* The provider has answered: a plain call returns into the running
\* handler, an awaited one makes the handler ready.
ProviderDone(t) ==
    /\ hpos[t] = "provider"
    /\ hpos' = [hpos EXCEPT ![t] = IF thread = t THEN "running" ELSE "ready"]
    /\ UNCHANGED <<program, thread, made>>
    /\ LoopFrame

\* The handler returns (or raises).
Finish(t) ==
    /\ thread = t
    /\ hpos[t] = "running"
    /\ hpos' = [hpos EXCEPT ![t] = "done"]
    /\ thread' = 0
    /\ UNCHANGED <<program, made>>
    /\ LoopFrame

LoopNext ==
    \E t \in Handlers :
        \/ Begin(t)
        \/ AwaitTelegram(t)
        \/ TelegramDone(t)
        \/ Resume(t)
        \/ CallProvider(t)
        \/ ProviderDone(t)
        \/ Finish(t)

\* ------------------------------------------- either program, run twice
\* Everything a run of either program can read or write.
Snapshot ==
    [photos |-> photos, pc |-> pc, idx |-> idx, file |-> file,
     selected_file |-> selected_file, image_bytes |-> image_bytes,
     tried_sizes |-> tried_sizes, telegram_file_url |-> telegram_file_url,
     product_name |-> product_name, attempts |-> attempts,
     first_text |-> first_text, replies |-> replies,
     only_empty |-> only_empty, last_attempt |-> last_attempt,
     api_key |-> api_key, permits |-> permits, waiters |-> waiters,
     cpc |-> cpc, attempt |-> attempt, backoff |-> backoff, posts |-> posts,
     slept |-> slept, transient_only |-> transient_only, ev |-> ev,
     ret |-> ret]

NoSnapshot == [pc |-> "none"]

ReplayOff ==
    /\ run = 0
    /\ prev = "none"
    /\ log = <<>>
    /\ pos = 0
    /\ ended = NoSnapshot

\* Where the program stands: handle_photo's position, or that of the one
\* call_gemini_with_image invocation.
StepOf(s) == IF workload = "photo" THEN s.pc ELSE s.cpc[1]

ProviderSteps == {"a1", "a1pos", "a2", "a3", "a4", "a4pos"}

\* What Telegram or the provider answered in the step from position pre to
\* the state post.
PhotoAnswer(pre, post) ==
    CASE pre = "start" ->
           IF post.pc = "raised" THEN "raise" ELSE "sent"
      [] pre = "get_file" ->
           IF post.pc = "r_error" THEN "raise"
           ELSE IF post.file.file_path THEN "path" ELSE "nopath"
      [] pre = "download" ->
           IF post.tried_sizes[Len(post.tried_sizes)].ok THEN "ok"
           ELSE "raise"
      [] pre \in ProviderSteps -> post.last_attempt.outcome
      [] pre = "get_file2" ->
           IF post.pc = "download2" THEN "ok" ELSE "raise"
      [] pre = "download2" ->
           IF post.pc = "a3" THEN "ok" ELSE "raise"
      [] OTHER ->
           IF post.pc = "done" THEN "sent"
           ELSE IF post.replies[Len(post.replies)].reached THEN "late"
           ELSE "lost"

Answer(pre, post) ==
    IF workload = "photo"
    THEN [step |-> pre, a |-> PhotoAnswer(pre, post),
          v |-> IF pre \in ProviderSteps
                   /\ post.last_attempt.outcome = "text"
                THEN post.product_name ELSE <<>>,
          status |-> 0, text |-> PyNone]
    ELSE [step |-> pre, a |-> post.ev.kind, v |-> <<>>,
          status |-> post.ev.status, text |-> post.ev.text]

\* The stub has recorded (run 1) or counted (run 2) the last step; every
\* step of either program moves its position.
Noted == prev = StepOf(Snapshot)

\* The program is as it was when run 1 began: handle_photo about to start
\* with its locals unbound, or no call made and the semaphore full.
AsAtStart ==
    IF workload = "photo" THEN pc = "start" /\ HandlePhotoLocals
    ELSE CallsInit

\* The answers the stub can record: it delivers every reply it accepts, and
\* knows one product name.
Offered ==
    LET given == Answer(prev, Snapshot')
    IN given.a # "late" /\ given.v # TextB

RunOver == IF workload = "photo" THEN HandlePhotoDone ELSE cpc[1] = "returned"

\* Run 2 gets from the stub the answers of run 1, in their order.
Scripted ==
    /\ Offered
    /\ run = 2 => pos < Len(log) /\ Answer(prev, Snapshot') = log[pos + 1]

Note ==
    /\ run > 0
    /\ ~Noted
    /\ prev' = StepOf(Snapshot)
    /\ IF run = 1
       THEN log' = Append(log, Answer(prev, Snapshot)) /\ pos' = pos
       ELSE log' = log /\ pos' = pos + 1
    /\ UNCHANGED <<run, ended>>
    /\ UNCHANGED <<workload, norm, lang_vars, loop_vars, hp_vars, call_vars>>

\* The caller has the outcome of run 1 and calls handle_photo again with the
\* same update: a new activation, whose locals are unbound.
PhotoAgain ==
    /\ run = 1 /\ Noted
    /\ workload = "photo" /\ HandlePhotoDone
    /\ pc' = "start"
    /\ idx' = 0
    /\ file' = NoFile
    /\ selected_file' = NoFile
    /\ image_bytes' = NoBytes
    /\ tried_sizes' = <<>>
    /\ telegram_file_url' = FALSE
    /\ product_name' = <<>>
    /\ attempts' = <<>>
    /\ first_text' = NoText
    /\ replies' = <<>>
    /\ only_empty' = TRUE
    /\ last_attempt' = NoAttempt
    /\ ended' = Snapshot
    /\ run' = 2
    /\ UNCHANGED <<photos, log, pos>>
    /\ UNCHANGED <<workload, norm, lang_vars, loop_vars, call_vars>>
    /\ prev' = StepOf(Snapshot')

\* The caller has the result of run 1 and calls call_gemini_with_image
\* again; the semaphore is the module's and stays as run 1 left it.
CallAgain ==
    /\ run = 1 /\ Noted
    /\ workload = "calls" /\ cpc[1] = "returned"
    /\ cpc' = [cpc EXCEPT ![1] = "idle"]
    /\ ev' = NoEvent
    /\ ret' = NoReturn
    /\ ended' = Snapshot
    /\ run' = 2
    /\ UNCHANGED <<api_key, permits, waiters, attempt, backoff, posts, slept,
                   transient_only>>
    /\ UNCHANGED <<log, pos>>
    /\ UNCHANGED <<workload, norm, lang_vars, loop_vars, hp_vars>>
    /\ prev' = StepOf(Snapshot')

ReplayNext ==
    \/ Note
    \/ PhotoAgain
    \/ CallAgain
    \/ Noted /\ Start /\ Scripted
    \/ Noted /\ GetFile /\ Scripted
    \/ Noted /\ Download /\ Scripted
    \/ Noted /\ UrlGenerateText /\ Scripted
    \/ Noted /\ UrlGenerateTextPositional /\ Scripted
    \/ Noted /\ UrlGenerateContent /\ Scripted
    \/ Noted /\ BytesGenerateContent /\ Scripted
    \/ Noted /\ BytesGenerateText /\ Scripted
    \/ Noted /\ BytesGenerateTextPositional /\ Scripted
    \/ \E k \in 1..4 : Noted /\ ReplyProduct(k) /\ Scripted
    \/ Noted /\ GetSmallestFile /\ Scripted
    \/ Noted /\ DownloadSmallest /\ Scripted
    \/ Noted /\ ReplyExhausted /\ Scripted
    \/ Noted /\ ReplyNoPhoto /\ Scripted
    \/ Noted /\ ReplyLocalError /\ Scripted
    \/ Noted /\ ReplyError /\ Scripted
    \/ Noted /\ Invoke(1) /\ Scripted
    \/ Noted /\ RespondTimeout(1) /\ Scripted
    \/ Noted /\ RespondException(1) /\ Scripted
    \/ Noted /\ RespondErrorStatus(1) /\ Scripted
    \/ Noted /\ RespondOk(1) /\ Scripted
    \/ Noted /\ WakeUp(1) /\ Scripted

\* --------------------------------------- the normalizers on their own
TextC == <<"C">>
TextW == <<"W", "i", "d", "g", "e", "t", " ", "X">>

\* Values of resp.text: missing, empty, a padded str, an object that is no
\* str.
TextFields == {PyNone, PyStr(<<>>), PyStr(<<" ">> \o TextA), PyObj}

\* Values of resp.candidates: missing, empty, a first candidate whose content
\* is a str, one with only a text attribute, one whose content is a list of
\* content blocks, one whose content is some other object.
CandidateFields ==
    { PyNone,
      PyList(<<>>),
      PyList(<<Part(PyNone, PyStr(TextB))>>),
      PyList(<<Part(PyStr(<<" ">> \o TextW \o <<"\n">>), PyNone)>>),
      PyList(<<Part(PyNone, PyList(<<Part(PyStr(TextW), PyNone)>>))>>),
      PyList(<<Part(PyNone, PyObj)>>) }

\* Values of resp.outputs: missing, one item with text, an empty item before
\* one with content, an item whose text is no str.
OutputFields ==
    { PyNone,
      PyList(<<Part(PyStr(TextC), PyNone)>>),
      PyList(<<Part(PyNone, PyNone), Part(PyNone, PyStr(TextC))>>),
      PyList(<<Part(PyObj, PyNone)>>) }

\* Response objects handed to extract_text_from_response; str(resp) is the
\* repr of the object or blank.
ResponseShapes ==
    {NoneResp}
    \cup {Resp(t, c, o, st) : t \in TextFields, c \in CandidateFields,
                              o \in OutputFields, st \in {<<"r">>, <<" ">>}}

\* One content block of a candidate, as a JSON object.
Block(kind, text) == JDict(<< <<"type", JStr(kind)>>, <<"text", text>> >>)

Candidates(first) == << <<"candidates", JList(<<first>>)>> >>

\* The Gemini REST answer with the role ahead of the parts.
GeminiAnswerRoleFirst(text) ==
    JDict(Candidates(JDict(<<
      <<"content",
        JDict(<< <<"role", JStr(<<"m">>)>>,
                 <<"parts", JList(<<JDict(<< <<"text", JStr(text)>> >>)>>)>> >>)>>,
      <<"finishReason", JStr(<<"S">>)>> >>)))

\* The top-level "text" entry of a body: missing, a padded str, a number.
TopEntries ==
    { <<>>,
      << <<"text", JStr(<<" ">> \o TextA)>> >>,
      << <<"text", JNum>> >> }

\* The "candidates" entry of a body: missing; empty; content as a list of
\* blocks with the text in the first or in the second block; the REST shape
\* with the parts or the role first; content as a list of strs; a candidate
\* with nothing but a finish reason; a block whose text is a number; a
\* candidate with a text entry of its own.
CandidateEntries ==
    { <<>>,
      << <<"candidates", JList(<<>>)>> >>,
      Candidates(JDict(<< <<"content",
          JList(<<Block(<<"o">>, JStr(<<" ">> \o TextW \o <<" ">>))>>)>> >>)),
      Candidates(JDict(<< <<"content",
          JList(<<JDict(<< <<"type", JStr(<<"i">>)>> >>),
                  Block(<<"o">>, JStr(TextW))>>)>> >>)),
      GeminiAnswer(TextW).d,
      GeminiAnswerRoleFirst(TextW).d,
      Candidates(JDict(<< <<"content", JList(<<JStr(TextB)>>)>> >>)),
      Candidates(JDict(<< <<"finishReason", JStr(<<"S">>)>> >>)),
      Candidates(JDict(<< <<"content",
          JList(<<Block(<<"o">>, JNum)>>)>> >>)),
      Candidates(JDict(<< <<"text", JStr(TextB)>> >>)) }

\* The "output" entry of a body: missing, with a text, with a text that is a
\* number.
OutputEntries ==
    { <<>>,
      << <<"output", JDict(<< <<"text", JStr(<<" ">> \o TextC)>> >>)>> >>,
      << <<"output", JDict(<< <<"text", JNum>> >>)>> >> }

\* Decoded bodies handed to extract_text_from_gemini_response.
BodyShapes ==
    {JNull, JList(<<JStr(TextA)>>)}
    \cup {JDict(t \o c \o o) : t \in TopEntries, c \in CandidateEntries,
                               o \in OutputEntries}

NoNorm == [fn |-> "none", arg |-> PyNone, out |-> Returned(<<>>)]
NormOff == norm = NoNorm

\* bot.py lines 45-67, called on one response.
NormalizeResponse ==
    /\ workload = "normalize"
    /\ \E resp \in ResponseShapes :
         norm' = [fn |-> "extract_text_from_response", arg |-> resp,
                  out |-> extract_text_from_response(resp)]
    /\ UNCHANGED <<workload, lang_vars, replay_vars, loop_vars, hp_vars, call_vars>>

\* telegram_gemini_affiliate_bot.py lines 174-216, called on one body.
NormalizeBody ==
    /\ workload = "normalize"
    /\ \E data \in BodyShapes :
         norm' = [fn |-> "extract_text_from_gemini_response", arg |-> data,
                  out |-> Returned(extract_text_from_gemini_response(data))]
    /\ UNCHANGED <<workload, lang_vars, replay_vars, loop_vars, hp_vars, call_vars>>

NormNext == NormalizeResponse \/ NormalizeBody

\* ------------------------------------------------------------ the system
Init ==
    /\ workload \in {"photo", "calls"}
    /\ IF workload = "photo" THEN HandlePhotoInit ELSE HandlePhotoOff
    /\ api_key \in IF workload = "photo" THEN {TRUE} ELSE BOOLEAN
    /\ CallsInit
    /\ NormOff
    /\ LangOff
    /\ ReplayOff
    /\ LoopOff

PhotoNext ==
    \/ Start
    \/ GetFile
    \/ Download
    \/ UrlGenerateText
    \/ UrlGenerateTextPositional
    \/ UrlGenerateContent
    \/ BytesGenerateContent
    \/ BytesGenerateText
    \/ BytesGenerateTextPositional
    \/ \E k \in 1..4 : ReplyProduct(k)
    \/ GetSmallestFile
    \/ DownloadSmallest
    \/ ReplyExhausted
    \/ ReplyNoPhoto
    \/ ReplyLocalError
    \/ ReplyError

Next == PhotoNext \/ CallsNext

\* Either program, one workload per run.
Spec == Init /\ [][Next]_vars

\* bot.py alone: one inbound photo.
PhotoInit ==
    /\ workload = "photo"
    /\ HandlePhotoInit
    /\ api_key = TRUE
    /\ CallsInit
    /\ NormOff
    /\ LangOff
    /\ ReplayOff
    /\ LoopOff

PhotoSpec == PhotoInit /\ [][PhotoNext]_vars

\* The affiliate bot alone: concurrent call_gemini_with_image invocations.
CallsOnlyInit ==
    /\ workload = "calls"
    /\ HandlePhotoOff
    /\ api_key \in BOOLEAN
    /\ CallsInit
    /\ NormOff
    /\ LangOff
    /\ ReplayOff
    /\ LoopOff

CallsSpec == CallsOnlyInit /\ [][CallsNext]_vars

\* The two normalizers alone, called on responses of every shape above.
NormInit ==
    /\ workload = "normalize"
    /\ HandlePhotoOff
    /\ api_key = TRUE
    /\ CallsInit
    /\ NormOff
    /\ LangOff
    /\ ReplayOff
    /\ LoopOff

NormSpec == NormInit /\ [][NormNext]_vars

\* The language handlers alone, from an empty users table.
LangInit ==
    /\ workload = "lang"
    /\ HandlePhotoOff
    /\ api_key = TRUE
    /\ CallsInit
    /\ NormOff
    /\ LangOff
    /\ ReplayOff
    /\ LoopOff

LangSpec == LangInit /\ [][LangNext]_vars

\* The photo handlers of either program on one event loop.
LoopInit ==
    /\ workload = "loop"
    /\ HandlePhotoOff
    /\ api_key = TRUE
    /\ CallsInit
    /\ NormOff
    /\ LangOff
    /\ ReplayOff
    /\ program \in {"bot", "affiliate"}
    /\ hpos = [t \in Handlers |-> "idle"]
    /\ thread = 0
    /\ made = [t \in Handlers |-> 0]

LoopSpec == LoopInit /\ [][LoopNext]_vars

\* Either program run twice by one caller against the same stub.
ReplayInit ==
    /\ workload \in {"photo", "calls"}
    /\ IF workload = "photo"
       THEN /\ HandlePhotoInit
            /\ Len(photos) <= ReplayVariants
       ELSE HandlePhotoOff
    /\ api_key \in IF workload = "photo" THEN {TRUE} ELSE BOOLEAN
    /\ CallsInit
    /\ NormOff
    /\ LangOff
    /\ run = 1
    /\ prev = StepOf(Snapshot)
    /\ log = <<>>
    /\ pos = 0
    /\ ended = NoSnapshot
    /\ LoopOff

ReplaySpec == ReplayInit /\ [][ReplayNext]_vars

\* The event loop runs every task that can run; a POST is answered or times
\* out (ClientTimeout(total=30), line 142); a sleep ends.
Respond(t) ==
    \/ RespondTimeout(t)
    \/ RespondException(t)
    \/ RespondErrorStatus(t)
    \/ RespondOk(t)

CallsFairness ==
    \A t \in Tasks :
        /\ WF_vars(Invoke(t))
        /\ WF_vars(Grant(t))
        /\ WF_vars(Respond(t))
        /\ WF_vars(WakeUp(t))

FairCallsSpec == CallsOnlyInit /\ [][CallsNext]_vars /\ CallsFairness

\* ------------------------------------------------------------------------
\* Properties of handle_photo (bot.py)

Sorted(sizes) ==
    \A i, j \in 1..Len(sizes) : i <= j => sizes[i] <= sizes[j]

\* The variants within the byte budget.
Within == {i \in 1..Len(photos) : photos[i] <= MAX_IMAGE_BYTES}

\* Every download the selection loop made succeeded.
AllDownloaded == \A i \in 1..Len(tried_sizes) : tried_sizes[i].ok

\* The selection loop ran to its end: it stopped at a variant within the
\* budget or went through the whole list.
SelectionOver ==
    /\ pc \notin {"off", "start", "get_file", "download"}
    /\ tried_sizes # <<>>
    /\ LET last == tried_sizes[Len(tried_sizes)]
       IN \/ last.idx = 1
          \/ last.ok /\ last.size <= MAX_IMAGE_BYTES

\* The replies that reached the user.
RECURSIVE Reached(_)
Reached(rs) ==
    IF rs = <<>> THEN <<>>
    ELSE IF Head(rs).reached THEN <<Head(rs)>> \o Reached(Tail(rs))
    ELSE Reached(Tail(rs))

\* The replies that carry the outcome of the recognition: a product name or
\* the "could not identify" message.
RECURSIVE Results(_)
Results(rs) ==
    IF rs = <<>> THEN <<>>
    ELSE IF Head(rs).kind \in {"product", "exhausted"}
    THEN <<Head(rs)>> \o Results(Tail(rs))
    ELSE Results(Tail(rs))

UpTo(k) == [i \in 1..k |-> i]

\* C1 (as stated; refuted): the plan is tried in the fixed order 1, 2, 3, 4;
\* when attempts 1..k-1 gave nothing and attempt k returns non-empty text,
\* attempt k is the last one made and the handler ends with exactly one reply,
\* which carries that text.
C1_FirstSuccessEndsPlan ==
    \A k \in 1..4 :
        (first_text.k = k /\ Len(attempts) >= k
         /\ SubSeq(attempts, 1, k) = UpTo(k))
        => /\ attempts = UpTo(k)
           /\ HandlePhotoDone =>
                replies = <<[kind |-> "product", v |-> first_text.v,
                             reached |-> TRUE]>>

\* C2 (as stated; refuted): for one photo the user is sent at most one reply
\* carrying a recognition result, and a product reply carries the first
\* non-empty normalized text in attempt order; also when sending a reply
\* raises.
C2_AtMostOneResultReply ==
    /\ Len(Results(Reached(replies))) <= 1
    /\ \A i \in 1..Len(replies) :
           replies[i].kind = "product" => replies[i].v = first_text.v

\* C9: when the variants are ordered smallest to largest, every download
\* succeeds and some variant is within MAX_IMAGE_BYTES, the variant selected
\* (the file kept and the bytes kept) is the largest one within the budget.
C9_LargestWithinBudget ==
    (SelectionOver /\ AllDownloaded /\ Sorted(photos) /\ Within # {})
    => LET best == CHOOSE i \in Within : \A j \in Within : j <= i
       IN /\ selected_file.idx = best
          /\ image_bytes = [idx |-> best, size |-> photos[best]]
          /\ \A j \in Within : photos[j] <= photos[best]
          /\ pc # "r_local"

\* C9 witness: three variants, the largest over budget, the middle one of
\* exactly MAX_IMAGE_BYTES selected.
C9_Witness ==
    /\ photos = <<1024, MAX_IMAGE_BYTES, MAX_IMAGE_BYTES + 1>>
    /\ SelectionOver /\ AllDownloaded
    /\ selected_file.idx = 2
    /\ image_bytes.size = MAX_IMAGE_BYTES

\* C10 (as stated; refuted): when every variant downloads and every variant
\* is over MAX_IMAGE_BYTES, the smallest variant is selected rather than no
\* image.
C10_SmallestWhenAllOversize ==
    (SelectionOver /\ AllDownloaded /\ photos # <<>> /\ Within = {})
    => /\ selected_file.idx = 1
       /\ pc # "r_local"

\* The applicable entries of the plan: the URL attempts when a file URL was
\* built, the inline attempts when image bytes are at hand.
Planned ==
    (IF telegram_file_url THEN <<1, 2>> ELSE <<>>)
    \o (IF image_bytes # NoBytes THEN <<3, 4>> ELSE <<>>)

Increasing(seq) ==
    \A i, j \in 1..Len(seq) : i < j => seq[i] < seq[j]

\* Past the provider phase of handle_photo.
PastAttempts == pc \in {"r_exhausted", "r_error", "done", "raised"}

NoText200(e) == e.kind = "ok" /\ ~Truthy(e.text)

\* C3: when every provider call returns empty normalized text, handle_photo
\* makes each attempt of its plan once, in order, never one twice, sends no
\* product reply, and then issues the "could not identify" reply (followed
\* by the error reply only if sending it raised);
\* call_gemini_with_image returns the empty result of a 200 response at
\* once, with one POST per attempt and no retry.
C3_AllEmptyEndsInFailure ==
    /\ (only_empty /\ attempts # <<>>)
       => /\ Increasing(attempts)
          /\ \A i \in 1..Len(replies) : replies[i].kind # "product"
          /\ PastAttempts => attempts = Planned
          /\ pc \in {"r_error", "done", "raised"}
             => replies # <<>> /\ replies[1].kind = "exhausted"
          /\ \A i \in 2..Len(replies) : i = 2 /\ replies[i].kind = "error"
    /\ NoText200(ev)
       => /\ cpc[ev.task] = "returned"
          /\ ret = [task |-> ev.task, value |-> ev.text]
          /\ ev.posts = ev.attempt
          /\ permits > 0

\* C3 witness: all four attempts came back empty and the failure reply was
\* sent.
C3_Witness ==
    /\ only_empty
    /\ attempts = <<1, 2, 3, 4>>
    /\ pc = "done"
    /\ replies = <<[kind |-> "exhausted", v |-> <<>>, reached |-> TRUE]>>

\* C8: an error of one attempt never escapes: in handle_photo a raising
\* provider call or normalization leads to the next plan entry (or to the
\* failure reply after the last), and the handler itself raises only out of
\* its own error reply or the progress reply; call_gemini_with_image answers
\* every failure by sleeping or by returning None and never raises.
C8_ErrorsStayInside ==
    /\ last_attempt.outcome = "raise"
       => pc = CASE last_attempt.target = 1 -> "a2"
                 [] last_attempt.target = 2 ->
                      IF image_bytes = NoBytes THEN "get_file2" ELSE "a3"
                 [] last_attempt.target = 3 -> "a4"
                 [] OTHER -> "r_exhausted"
    /\ pc = "raised"
       => \/ replies = <<>>
          \/ replies[Len(replies)].kind = "error"
    /\ \A t \in Tasks : cpc[t] # "raised"
    /\ ev.kind \in {"timeout", "exception", "status"}
       => \/ cpc[ev.task] = "sleep" /\ ret = NoReturn
          \/ cpc[ev.task] = "returned"
             /\ ret = [task |-> ev.task, value |-> PyNone]

\* C8 witness: the last attempt raised and the handler is about to send the
\* failure reply, every earlier attempt having raised or come back empty.
C8_Witness ==
    /\ last_attempt = [target |-> 4, outcome |-> "raise"]
    /\ attempts = <<1, 2, 3, 4>>
    /\ pc = "r_exhausted"
    /\ replies = <<>>

\* ------------------------------------------------------------------------
\* Properties of call_gemini_with_image (telegram_gemini_affiliate_bot.py)

Is5xx(status) == 500 <= status /\ status < 600

\* A transient failure: a timeout or an HTTP 5xx status.
Transient(e) == e.kind = "timeout" \/ (e.kind = "status" /\ Is5xx(e.status))

ReturnedTo(t, value) ==
    cpc[t] = "returned" /\ ret = [task |-> t, value |-> value]

\* C4: a call makes at most max_attempts = 3 POSTs. A transient failure of
\* attempt 1 or 2 is followed by another attempt, and a 200 that follows
\* transient failures only (two of them at attempt 3) returns the text of
\* that response; a transient failure of attempt 3 returns None after
\* exactly 3 POSTs.
C4_ThreeAttempts ==
    /\ \A t \in Tasks : posts[t] <= max_attempts /\ posts[t] = attempt[t]
    /\ Transient(ev)
       => IF ev.attempt < max_attempts
          THEN cpc[ev.task] = "sleep" /\ ret = NoReturn
          ELSE /\ ReturnedTo(ev.task, PyNone)
               /\ ev.posts = max_attempts
    /\ (ev.kind = "ok" /\ ev.transient_only)
       => /\ ReturnedTo(ev.task, ev.text)
          /\ ev.posts = ev.attempt
          /\ ev.attempt <= max_attempts

\* C4 witness: the third POST, after two transient failures, is answered with
\* 200 and a text, which is returned.
C4_Witness ==
    /\ ev.kind = "ok" /\ ev.attempt = 3 /\ ev.posts = 3
    /\ ev.transient_only
    /\ ev.text = PyStr(TextA)
    /\ ReturnedTo(ev.task, PyStr(TextA))

\* C5 (as stated; refuted): a failure that is neither a timeout nor a 5xx
\* status (a non-5xx error status, or any other raised exception such as a
\* malformed body) ends the call after that attempt with None.
C5_NonTransientNeverRetried ==
    (ev.kind = "exception" \/ (ev.kind = "status" /\ ~Is5xx(ev.status)))
    => ReturnedTo(ev.task, PyNone)

\* C5 (amended): a non-200 status outside 5xx whose body was read ends the
\* call after that attempt with None; a raised exception other than a timeout
\* (from the POST, from reading an error body, from decoding a 200 body) is
\* retried like a timeout while attempts remain and ends the call with None
\* only at attempt 3.
C5_OnlyErrorStatusNeverRetried ==
    /\ (ev.kind = "status" /\ ~Is5xx(ev.status))
       => ReturnedTo(ev.task, PyNone)
    /\ ev.kind = "exception"
       => IF ev.attempt < max_attempts
          THEN cpc[ev.task] = "sleep" /\ ret = NoReturn
          ELSE ReturnedTo(ev.task, PyNone) /\ ev.posts = max_attempts

\* C5 witness: the first POST is answered 404; the call returns None.
C5_Witness ==
    /\ ev.kind = "status" /\ ev.status = 404 /\ ev.attempt = 1
    /\ ReturnedTo(ev.task, PyNone)

\* C6: never more than 3 POSTs in flight, however many calls were started.
C6_AtMostThreeInFlight ==
    /\ Cardinality(InFlight) <= SemaphoreCapacity
    /\ Cardinality(Holders) <= SemaphoreCapacity
    /\ permits = SemaphoreCapacity - Cardinality(Holders)

\* C6 witness: three POSTs in flight while a fourth call waits for a slot.
C6_Witness ==
    /\ Cardinality(InFlight) = SemaphoreCapacity
    /\ \E t \in Tasks : cpc[t] = "acquire"

\* A call that had to wait starts its first POST only when another call has
\* returned.
PostAfterRelease ==
    \A t \in Tasks :
        (cpc[t] = "acquire" /\ cpc'[t] = "post")
        => \E u \in Tasks \ {t} : cpc[u] = "returned"

AllReturned == \A t \in Tasks : cpc[t] = "returned"

\* C7: a call beyond the limit starts its first POST only after an earlier
\* call has released its slot, and under fair scheduling every one of the
\* calls eventually returns, whatever the responses are.
C7_EveryCallCompletes ==
    /\ [][PostAfterRelease]_vars
    /\ <>[]AllReturned

\* C7 witness: more calls than slots, all returned, every slot free again.
C7_Witness ==
    /\ api_key
    /\ NumTasks > SemaphoreCapacity
    /\ AllReturned
    /\ permits = SemaphoreCapacity

\* ------------------------------------------------------------------------
\* Properties of the response normalizers

OfResponse == norm.fn = "extract_text_from_response"
OfBody == norm.fn = "extract_text_from_gemini_response"

\* A JSON value holds a textual answer: an entry named text, response or
\* result somewhere in it, or a str in a list.
RECURSIVE HasTextEntry(_), AnyHasText(_)
HasTextEntry(obj) ==
    CASE obj.t = "dict" ->
           \/ \E key \in {"text", "response", "result"} : Has(obj, key)
           \/ AnyHasText([i \in 1..Len(obj.d) |-> obj.d[i][2]])
      [] obj.t = "list" ->
           \/ \E i \in 1..Len(obj.l) : obj.l[i].t = "str"
           \/ AnyHasText(obj.l)
      [] OTHER -> FALSE
AnyHasText(vs) ==
    IF vs = <<>> THEN FALSE
    ELSE HasTextEntry(vs[1]) \/ AnyHasText(Tail(vs))

\* A response object without text, candidates or outputs.
NoTextAttr(resp) ==
    /\ ~resp.isNone
    /\ resp.text = PyNone
    /\ resp.candidates \in {PyNone, PyList(<<>>)}
    /\ resp.outputs = PyNone

\* C13 (as stated; refuted): given a response that is not None and has no
\* textual answer field anywhere, each normalizer returns an empty result.
C13_NoTextGivesEmpty ==
    /\ (OfResponse /\ NoTextAttr(norm.arg)) => norm.out = Returned(<<>>)
    /\ (OfBody /\ norm.arg.t = "dict" /\ ~HasTextEntry(norm.arg))
       => ~norm.out.raised /\ ~Truthy(norm.out.value)

\* C14 (as stated; refuted): neither normalizer raises, whatever the shape of
\* the response.
C14_NormalizersNeverRaise ==
    norm.fn # "none" => ~norm.out.raised

\* The blocks of the first candidate's content: a list of blocks, or the
\* parts of a content object.
FirstBlocks(data) ==
    IF data.t = "dict" /\ Has(data, "candidates")
       /\ Get(data, "candidates").t = "list"
       /\ Get(data, "candidates").l # <<>>
       /\ Get(data, "candidates").l[1].t = "dict"
    THEN LET c == Get(Get(data, "candidates").l[1], "content")
         IN IF c.t = "list" THEN c.l
            ELSE IF c.t = "dict" /\ Get(c, "parts").t = "list"
            THEN Get(c, "parts").l
            ELSE <<>>
    ELSE <<>>

\* One of the blocks carries "Widget X".
BodyCarriesWidgetX(data) ==
    \E i \in 1..Len(FirstBlocks(data)) :
        LET b == FirstBlocks(data)[i]
        IN /\ b.t = "dict"
           /\ Get(b, "text").t = "str"
           /\ strip(Get(b, "text").s) = TextW

ResponseCarriesWidgetX(resp) ==
    /\ ~resp.isNone
    /\ resp.candidates.t = "list"
    /\ resp.candidates.items # <<>>
    /\ LET c == resp.candidates.items[1].content
       IN /\ c.t = "list"
          /\ \E i \in 1..Len(c.items) :
                /\ c.items[i].text.t = "str"
                /\ strip(c.items[i].text.v) = TextW

\* C15 (as stated; refuted): given a response with no direct text field
\* whose first candidate holds nested content blocks, one of them carrying
\* "Widget X", each normalizer returns exactly "Widget X".
C15_NestedWidgetX ==
    /\ (OfResponse /\ ResponseCarriesWidgetX(norm.arg)
        /\ norm.arg.text = PyNone)
       => norm.out = Returned(TextW)
    /\ (OfBody /\ BodyCarriesWidgetX(norm.arg) /\ ~Has(norm.arg, "text"))
       => norm.out = Returned(PyStr(TextW))

\* C19 (as stated; refuted): each normalizer takes a non-empty direct text
\* field before anything else, and a candidate's text before an output's.
C19_DirectTextFirst ==
    /\ (OfResponse /\ ~norm.arg.isNone /\ norm.arg.text.t = "str"
        /\ norm.arg.text.v # <<>>)
       => norm.out = Returned(strip(norm.arg.text.v))
    /\ (OfResponse /\ ~norm.arg.isNone /\ norm.arg.text = PyNone
        /\ norm.arg.candidates = PyList(<<Part(PyNone, PyStr(TextB))>>))
       => norm.out = Returned(TextB)
    /\ (OfBody /\ norm.arg.t = "dict"
        /\ Get(norm.arg, "text").t = "str" /\ Get(norm.arg, "text").s # <<>>)
       => norm.out = Returned(PyStr(strip(Get(norm.arg, "text").s)))

\* ------------------------------------------------------------------------
\* Further properties of handle_photo (bot.py)

\* The handler is past the selection loop, however it left it.
SelectionEnded ==
    /\ photos # <<>>
    /\ pc \notin {"off", "start", "get_file", "download"}
    /\ ~(pc = "raised" /\ replies = <<>>)

TakenAt(i) ==
    tried_sizes[i].ok /\ tried_sizes[i].size <= MAX_IMAGE_BYTES

\* C11 (as stated; refuted): a failed fetch of one variant never ends the
\* selection: the loop is left only at a variant that was fetched and is
\* within the budget, or after the smallest variant; every variant from the
\* largest down to there is recorded in tried_sizes; and a variant fetched
\* within the budget after larger ones failed is the one selected.
C11_FetchFailureNeverAborts ==
    SelectionEnded
    => /\ tried_sizes # <<>>
       /\ \A i \in 1..Len(tried_sizes) :
             tried_sizes[i].idx = Len(photos) - i + 1
       /\ \A i \in 1..(Len(tried_sizes) - 1) : ~TakenAt(i)
       /\ LET n == Len(tried_sizes)
          IN /\ n > 0 => (TakenAt(n) \/ tried_sizes[n].idx = 1)
             /\ (n > 0 /\ TakenAt(n))
                => /\ selected_file.idx = tried_sizes[n].idx
                   /\ image_bytes = [idx |-> tried_sizes[n].idx,
                                     size |-> tried_sizes[n].size]

\* Every variant was tried and no download succeeded.
AllFetchesFailed ==
    /\ photos # <<>>
    /\ Len(tried_sizes) = Len(photos)
    /\ \A i \in 1..Len(tried_sizes) : ~tried_sizes[i].ok

\* C12 (as stated; refuted): when the fetch of every variant fails the
\* request ends with the "could not process image" reply and no provider
\* call is made.
C12_AllFetchesFailedIsFatal ==
    AllFetchesFailed
    => /\ attempts = <<>>
       /\ pc \in {"r_local", "r_error", "done", "raised"}
       /\ replies # <<>> => replies[1].kind = "local"

UrlEntries == {1, 2}
ByteEntries == {3, 4}

UrlBeforeBytes ==
    \A i, j \in 1..Len(attempts) :
        (attempts[i] \in ByteEntries /\ attempts[j] \in UrlEntries) => j < i

NoUrlCall == \A i \in 1..Len(attempts) : attempts[i] \notin UrlEntries

\* A file was selected but no URL could be built from it, and the handler
\* has reached the failure reply.
FailedWithoutUrl ==
    /\ selected_file # NoFile
    /\ ~selected_file.file_path
    /\ pc = "r_exhausted"

LastFailure ==
    /\ ev.kind \in {"timeout", "exception", "status"}
    /\ \/ ev.attempt = max_attempts
       \/ ev.kind = "status" /\ ~Is5xx(ev.status)

\* C20: the delay slept after the n-th failed attempt (before the n-th
\* retry) is 2^(n-1) seconds, whatever the failures were: 1 s before attempt
\* 2 and 2 s before attempt 3; nothing is slept after the final attempt or
\* after a failure that is not retried; a call sleeps 3 s at most.
C20_ExponentialBackoff ==
    /\ \A t \in Tasks :
          /\ cpc[t] = "sleep"
             => /\ attempt[t] \in 1..(max_attempts - 1)
                /\ backoff[t] = 2 ^ (attempt[t] - 1)
                /\ slept[t] = 2 ^ attempt[t] - 1
          /\ cpc[t] = "post" => slept[t] = 2 ^ (attempt[t] - 1) - 1
          /\ slept[t] <= 3
    /\ LastFailure
       => /\ cpc[ev.task] = "returned"
          /\ ret.task = ev.task
          /\ ev.slept = 2 ^ (ev.attempt - 1) - 1

\* C20 witness: a call asleep for 2 s before its third attempt, after an
\* exception and then a timeout.
C20_Witness ==
    \E t \in Tasks :
        /\ cpc[t] = "sleep"
        /\ attempt[t] = 2
        /\ backoff[t] = 2
        /\ slept[t] = 3
        /\ ev.task = t
        /\ ev.kind = "timeout"
        /\ ~transient_only[t]

\* ------------------------------------------------------------------------
\* The language of a user

\* What the claim expects get_user_lang to give for u.
ExpectedLang(u) ==
    IF last_stored[u] = NoRow THEN LangEn ELSE last_stored[u][1]

LanguageAsStored ==
    /\ \A u \in Users : get_user_lang(u) = ExpectedLang(u)
    /\ lang_ev.read # NoRow => lang_ev.read[1] = ExpectedLang(lang_ev.user)

\* A step changes the language of u only if it is a lang_callback of u that
\* stored it.
OnlyOwnCallbackChanges ==
    \A u \in Users :
        get_user_lang(u)' # get_user_lang(u)
        => /\ lang_ev'.op = "lang_callback"
           /\ lang_ev'.user = u
           /\ lang_ev'.stored = Row(get_user_lang(u)')

\* C17: after any sequence of start, lang_callback, text, photo and help
\* updates (and restarts) by any users, get_user_lang(u) is the language
\* lang_callback stored last for u, "en" if it never stored one, and every
\* handler that reads the language gets that; no step other than u's own
\* lang_callback changes it.
C17_LanguagePersisted ==
    /\ []LanguageAsStored
    /\ [][OnlyOwnCallbackChanges]_vars

\* C17 witness: a photo of one user is answered in Arabic, which that user
\* chose, while another user has chosen English.
C17_Witness ==
    \E u, v \in Users :
        /\ u # v
        /\ lang_ev.op = "photo_handler"
        /\ lang_ev.user = u
        /\ lang_ev.read = Row(LangAr)
        /\ last_stored[u] = Row(LangAr)
        /\ last_stored[v] = Row(LangEn)

\* ------------------------------------------------------------------------
\* Two runs on the same input

\* C16: a second run of handle_photo on the same variants, or of
\* call_gemini_with_image, against a stub that answers as it did in the
\* first run, starts from the state the first run started from (semaphore
\* slots, waiters, counters), makes the same kind of step at every position
\* of the stub's script, and is over exactly at the script's end in the state
\* in which the first run was over: the same attempts, replies and result.
C16_SecondRunSame ==
    (run = 2 /\ Noted)
    => /\ pos = 0 => AsAtStart
       /\ pos < Len(log)
          => ~RunOver /\ StepOf(Snapshot) = log[pos + 1].step
       /\ pos >= Len(log) => RunOver /\ Snapshot = ended

\* C16 witness: the second call is over after the same two retries as the
\* first and returns the same text.
C16_Witness ==
    /\ run = 2 /\ Noted
    /\ workload = "calls"
    /\ cpc[1] = "returned"
    /\ ev.posts = max_attempts
    /\ ev.kind = "ok"
    /\ Truthy(ret.value)
    /\ ret = ended.ret

\* ------------------------------------------------------------------------
\* The size of the bytes sent inline

\* An inline-bytes attempt is about to be made or has been made.
InlinePhase ==
    \/ pc \in {"a3", "a4", "a4pos"}
    \/ \E i \in 1..Len(attempts) : attempts[i] \in ByteEntries

\* C23 (as stated; refuted): whatever the variant sizes and whichever
\* downloads fail, the bytes handed to the provider by an inline-bytes
\* attempt are at most MAX_IMAGE_BYTES long.
C23_InlineBytesWithinBudget ==
    InlinePhase
    => /\ image_bytes # NoBytes
       /\ image_bytes.size <= MAX_IMAGE_BYTES

\* ------------------------------------------------------------------------
\* Conservation of the limiter's slots

\* No call is under way.
Quiet == \A t \in Tasks : cpc[t] \in {"idle", "returned"}

\* C22: a call is inside the limiter from its first POST until it returns,
\* its sleeps between retries included, and every return gives the slot
\* back: free slots plus calls inside the limiter are always 3, a call that
\* has just returned (with text or with None) is no longer inside, and with
\* no call under way all 3 slots are free. Without an API key a call
\* returns None with no slot taken, no wait and no POST.
C22_PermitsConserved ==
    /\ permits \in 0..SemaphoreCapacity
    /\ permits + Cardinality(Holders) = SemaphoreCapacity
    /\ \A t \in Tasks : posts[t] > 0 => t \in Holders
    /\ ret.task # 0 => ret.task \notin Holders
    /\ Quiet => permits = SemaphoreCapacity
    /\ ~api_key
       => /\ Quiet
          /\ permits = SemaphoreCapacity
          /\ waiters = <<>>
          /\ \A t \in Tasks : posts[t] = 0
          /\ ev = NoEvent
          /\ ret.task # 0 => ret.value = PyNone

\* C22 witness: a call sleeps between two attempts while it and two others
\* hold all the slots and a fourth call waits.
C22_Witness ==
    /\ permits = 0
    /\ \E t \in Tasks : cpc[t] = "sleep" /\ attempt[t] = 2
    /\ \E t \in Tasks : cpc[t] = "acquire"

\* ------------------------------------------------------------------------
\* The provider invocation as a suspension point

\* C21 (as stated; refuted): a handler whose provider invocation is
\* outstanding does not keep the event loop's thread, so that the other
\* photo handlers can take steps in the meantime.
C21_ProviderCallYields ==
    \A t \in Handlers : hpos[t] = "provider" => thread # t

====
